---- MODULE Spec2Model ----
(***************************************************************************)
(* Model of kusto_explorer.py: a linear script that connects to a cluster, *)
(* lists its databases, lists the tables of each database, and prints the  *)
(* result as a tree.                                                       *)
(*                                                                         *)
(* A Python string is modelled as a sequence of characters; an ANSI colour *)
(* escape and a multi-byte glyph are one element each.  A line written by  *)
(* print() is one entry of stdout, tagged with the function that wrote it. *)
(* Every external call (credential/client construction, execute_mgmt,      *)
(* print) has three outcomes: it returns, it raises an Exception, or a     *)
(* KeyboardInterrupt is delivered while the thread is inside it.           *)
(***************************************************************************)
EXTENDS Integers, Sequences, FiniteSets

VARIABLES
    pc,               \* position of the single thread
    cluster_url,      \* args.cluster_url (main, line 171)
    client,           \* "none" or "client": the handle returned by connect_to_kusto
    databases,        \* main's local `databases` (line 177)
    db_idx,           \* position of `for db in databases` (line 185), 1-based
    databases_tables, \* main's dict (line 184): sequence of [key, value] in insertion order
    inflight,         \* the execute_mgmt request the thread is blocked in (0 or 1 entries)
    requests,         \* every execute_mgmt request issued so far, in order
    connects,         \* number of times the credential/client construction was attempted
    stdout,           \* lines written by print(), in order
    exc,              \* exception propagating into main's try block
    exit_code,        \* argument of a propagating SystemExit
    exit_status,      \* process exit status, -1 while the process runs
    pt_i,             \* print_tree's i (line 148), 1-based
    pt_j,             \* print_tree's j (line 161), 1-based
    db_prefix,        \* print_tree's db_prefix (lines 154, 157)
    calls,            \* how many times print_tree has been entered
    first_out,        \* what the first call of print_tree wrote (rendering harness)
    first_arg,        \* the dict passed to the first call of print_tree (rendering harness)
    responses,        \* what each execute_mgmt request came back with, in order
    interrupts        \* number of KeyboardInterrupts delivered so far

vars == <<pc, cluster_url, client, databases, db_idx, databases_tables, inflight,
          requests, connects, stdout, exc, exit_code, exit_status, pt_i, pt_j,
          db_prefix, calls, first_out, first_arg, responses, interrupts>>

(***************************************************************************)
(* Bounds of the model                                                     *)
(***************************************************************************)
MaxDbs == 2
MaxTables == 2

Urls == { <<"h", "1">>, <<"h", "2">> }   \* cluster_url values given to print_tree
ArgUrls == { <<"h", "1">> }              \* cluster_url values on the command line
DbNames == { <<"A">>, <<"B">> }
TableNames == { <<"t", "1">>, <<"t", "2">> }

SeqsUpTo(S, n) == UNION { [1..k -> S] : k \in 0..n }

(***************************************************************************)
(* colorama constants and TreeStyle (lines 43-51)                          *)
(***************************************************************************)
ForeCYAN == "ESC[36m"
ForeGREEN == "ESC[32m"
ForeYELLOW == "ESC[33m"
ForeWHITE == "ESC[37m"
StyleBRIGHT == "ESC[1m"

CLUSTER == <<ForeCYAN, "GLOBE", " ", StyleBRIGHT>>
DATABASE == <<ForeGREEN, "FOLDER", " ", StyleBRIGHT>>
TABLE == <<ForeYELLOW, "CLIPBOARD", " ">>
PIPE == <<ForeWHITE, "BOX_V", " ">>
TEE == <<ForeWHITE, "BOX_VR", "BOX_H">>
ELBOW == <<ForeWHITE, "BOX_UR", "BOX_H">>
SPACE == <<" ", " ">>

(***************************************************************************)
(* Python dict: insertion-ordered, assignment to an existing key keeps the *)
(* key's position and replaces its value.                                  *)
(***************************************************************************)
DictKeys(d) == [n \in 1..Len(d) |-> d[n].key]

DictHas(d, k) == \E n \in 1..Len(d) : d[n].key = k

\* faulty variant: a new key goes to the front instead of the end
DictSetItemFront(d, k, v) ==
    IF DictHas(d, k)
    THEN [n \in 1..Len(d) |-> IF d[n].key = k THEN [key |-> k, value |-> v] ELSE d[n]]
    ELSE <<[key |-> k, value |-> v]>> \o d

DictSetItem(d, k, v) ==
    IF DictHas(d, k)
    THEN [n \in 1..Len(d) |-> IF d[n].key = k THEN [key |-> k, value |-> v] ELSE d[n]]
    ELSE Append(d, [key |-> k, value |-> v])

(***************************************************************************)
(* print(): one more line on stdout, tagged with the calling function.     *)
(* A fixed message is one element of the line.                             *)
(***************************************************************************)
Emit(out, fn, text) == Append(out, [fn |-> fn, text |-> text])

\* what a blocking call can raise instead of returning
Raised == {"Exception", "KeyboardInterrupt"}

\* `except Exception` matches Exception and its subclasses; KeyboardInterrupt and
\* SystemExit derive from BaseException only
IsException(e) == e = "Exception"

\* the environment delivers e inside a blocking call
Deliver(e) == interrupts' = IF e = "KeyboardInterrupt" THEN interrupts + 1 ELSE interrupts

Response(raised, rows) == [raised |-> raised, rows |-> rows]

\* a raised exception leaves the statement and propagates to main's handlers
Raise(e, code) ==
    /\ pc' = "except"
    /\ exc' = e
    /\ exit_code' = code

Request(database, command) == [database |-> database, command |-> command]

(***************************************************************************)
(* main, line 171: args = parse_args().  argparse exits with status 2 when *)
(* the positional argument is missing.                                     *)
(***************************************************************************)
Argvs == { <<>> } \cup { <<u>> : u \in ArgUrls }

ParseArgs ==
    /\ pc = "parse_args"
    /\ \E argv \in Argvs :
         IF Len(argv) = 1
         THEN /\ cluster_url' = argv[1]
              /\ pc' = "connect"
              /\ UNCHANGED <<exc, exit_code>>
         ELSE /\ Raise("SystemExit", 2)
              /\ UNCHANGED cluster_url
    /\ UNCHANGED <<client, databases, db_idx, databases_tables, inflight, requests,
                   connects, stdout, exit_status, pt_i, pt_j, db_prefix, calls,
                   first_out, first_arg, responses, interrupts>>

(***************************************************************************)
(* connect_to_kusto, lines 64-88                                           *)
(***************************************************************************)
\* faulty variant: the handler reports the failure and returns None instead of exiting
ConnectExceptReturnsNone(e) ==
    IF IsException(e)
    THEN /\ stdout' = Emit(stdout, "connect_to_kusto",
                           <<"Error connecting to Kusto cluster: ">>)
         /\ pc' = "get_databases"
         /\ UNCHANGED <<client, exc, exit_code>>
    ELSE /\ Raise(e, 0)
         /\ UNCHANGED <<client, stdout>>

\* lines 84-88: except Exception: print, sys.exit(1)
ConnectExcept(e) ==
    IF IsException(e)
    THEN /\ stdout' = Emit(stdout, "connect_to_kusto",
                           <<"Error connecting to Kusto cluster: ">>)
         /\ Raise("SystemExit", 1)
         /\ UNCHANGED client
    ELSE /\ Raise(e, 0)
         /\ UNCHANGED <<client, stdout>>

ConnectToKusto ==
    /\ pc = "connect"
    /\ connects' = connects + 1
    /\ \/ /\ client' = "client"
          /\ pc' = "get_databases"
          /\ UNCHANGED <<stdout, exc, exit_code, interrupts>>
       \/ \E e \in Raised : Deliver(e) /\ ConnectExcept(e)
    /\ UNCHANGED <<cluster_url, databases, db_idx, databases_tables, inflight, requests,
                   exit_status, pt_i, pt_j, db_prefix, calls, first_out, first_arg, responses>>

(***************************************************************************)
(* get_databases, lines 100-110                                            *)
(***************************************************************************)
GetDatabasesCall ==
    /\ pc = "get_databases"
    /\ LET req == Request(<<>>, ".show databases") IN
         /\ requests' = Append(requests, req)
         /\ inflight' = <<req>>
    /\ pc' = "get_databases_wait"
    /\ UNCHANGED <<cluster_url, client, databases, db_idx, databases_tables, connects,
                   stdout, exc, exit_code, exit_status, pt_i, pt_j, db_prefix, calls,
                   first_out, first_arg, responses, interrupts>>

\* lines 106-110: except Exception: print, return []
GetDatabasesExcept(e) ==
    IF IsException(e)
    THEN /\ stdout' = Emit(stdout, "get_databases", <<"Error fetching databases: ">>)
         /\ databases' = <<>>
         /\ pc' = "check_databases"
         /\ UNCHANGED <<exc, exit_code>>
    ELSE /\ Raise(e, 0)
         /\ UNCHANGED <<databases, stdout>>

GetDatabasesReturn ==
    /\ pc = "get_databases_wait"
    /\ inflight' = <<>>
    /\ \/ /\ \E rows \in SeqsUpTo(DbNames, MaxDbs) :
                /\ databases' = rows
                /\ responses' = Append(responses, Response("none", rows))
          /\ pc' = "check_databases"
          /\ UNCHANGED <<stdout, exc, exit_code, interrupts>>
       \/ \E e \in Raised :
             /\ Deliver(e)
             /\ responses' = Append(responses, Response(e, <<>>))
             /\ GetDatabasesExcept(e)
    /\ UNCHANGED <<cluster_url, client, db_idx, databases_tables, requests, connects,
                   exit_status, pt_i, pt_j, db_prefix, calls, first_out, first_arg>>

(***************************************************************************)
(* main, lines 179-184                                                     *)
(***************************************************************************)
\* faulty variant: the message is printed but the `return` is missing
MainNoDatabasesNoReturn ==
    /\ stdout' = Emit(stdout, "main",
                      <<"No databases found or unable to fetch databases.">>)
    /\ databases_tables' = <<>>
    /\ pc' = "print_tree"
    /\ UNCHANGED <<exit_status, db_idx>>

\* lines 179-181: if not databases: print, return
MainNoDatabases ==
    /\ stdout' = Emit(stdout, "main",
                      <<"No databases found or unable to fetch databases.">>)
    /\ pc' = "done"
    /\ exit_status' = 0
    /\ UNCHANGED <<databases_tables, db_idx>>

MainCheckDatabases ==
    /\ pc = "check_databases"
    /\ IF databases = <<>>
       THEN MainNoDatabases
       ELSE /\ databases_tables' = <<>>
            /\ db_idx' = 1
            /\ pc' = "get_tables"
            /\ UNCHANGED <<stdout, exit_status>>
    /\ UNCHANGED <<cluster_url, client, databases, inflight, requests, connects, exc,
                   exit_code, pt_i, pt_j, db_prefix, calls, first_out, first_arg,
                   responses, interrupts>>

(***************************************************************************)
(* get_tables, lines 123-133, called from main's loop, lines 185-187       *)
(***************************************************************************)
GetTablesCall ==
    /\ pc = "get_tables"
    /\ LET req == Request(databases[db_idx], ".show tables") IN
         /\ requests' = Append(requests, req)
         /\ inflight' = <<req>>
    /\ pc' = "get_tables_wait"
    /\ UNCHANGED <<cluster_url, client, databases, db_idx, databases_tables, connects,
                   stdout, exc, exit_code, exit_status, pt_i, pt_j, db_prefix, calls,
                   first_out, first_arg, responses, interrupts>>

\* main, lines 185-187: store the result, take the next database or leave the loop
MainStoreTables(tables) ==
    /\ databases_tables' = DictSetItem(databases_tables, databases[db_idx], tables)
    /\ db_idx' = db_idx + 1
    /\ pc' = IF db_idx = Len(databases) THEN "print_tree" ELSE "get_tables"

\* faulty variant: the handler reports the failure and re-raises it
GetTablesExceptReraises(e) ==
    /\ stdout' = IF IsException(e)
                 THEN Emit(stdout, "get_tables",
                           <<"Error fetching tables for database ">> \o databases[db_idx])
                 ELSE stdout
    /\ Raise(e, 0)
    /\ UNCHANGED <<databases_tables, db_idx>>

\* faulty variant: the handler asks again for the same database instead of returning []
GetTablesExceptRetries(e) ==
    IF IsException(e)
    THEN /\ stdout' = Emit(stdout, "get_tables",
                           <<"Error fetching tables for database ">> \o databases[db_idx])
         /\ pc' = "get_tables"
         /\ UNCHANGED <<databases_tables, db_idx, exc, exit_code>>
    ELSE /\ Raise(e, 0)
         /\ UNCHANGED <<databases_tables, db_idx, stdout>>

\* faulty variant: a bare `except:` that also absorbs KeyboardInterrupt
GetTablesExceptBare(e) ==
    /\ stdout' = Emit(stdout, "get_tables",
                      <<"Error fetching tables for database ">> \o databases[db_idx])
    /\ MainStoreTables(<<>>)
    /\ UNCHANGED <<exc, exit_code>>

\* lines 129-133: except Exception: print, return []
GetTablesExcept(e) ==
    IF IsException(e)
    THEN /\ stdout' = Emit(stdout, "get_tables",
                           <<"Error fetching tables for database ">> \o databases[db_idx])
         /\ MainStoreTables(<<>>)
         /\ UNCHANGED <<exc, exit_code>>
    ELSE /\ Raise(e, 0)
         /\ UNCHANGED <<databases_tables, db_idx, stdout>>

GetTablesReturn ==
    /\ pc = "get_tables_wait"
    /\ inflight' = <<>>
    /\ \/ /\ \E rows \in SeqsUpTo(TableNames, MaxTables) :
                /\ MainStoreTables(rows)
                /\ responses' = Append(responses, Response("none", rows))
          /\ UNCHANGED <<stdout, exc, exit_code, interrupts>>
       \/ \E e \in Raised :
             /\ Deliver(e)
             /\ responses' = Append(responses, Response(e, <<>>))
             /\ GetTablesExcept(e)
    /\ UNCHANGED <<cluster_url, client, databases, requests, connects, exit_status,
                   pt_i, pt_j, db_prefix, calls, first_out, first_arg>>

(***************************************************************************)
(* print_tree, lines 135-166.  One action per print(); print_tree has no   *)
(* handler, so whatever a print() raises propagates to the caller.         *)
(***************************************************************************)
ClusterLine(url) == CLUSTER \o url

\* faulty variant: every database is drawn as a non-last sibling
DatabaseLineAlwaysTee(is_last_db, db) == TEE \o DATABASE \o db

\* lines 152-157
DatabaseLine(is_last_db, db) ==
    IF is_last_db THEN ELBOW \o DATABASE \o db ELSE TEE \o DATABASE \o db

\* faulty variant: the children of every database get the blank indent
DbPrefixBlank(is_last_db) == SPACE

DbPrefix(is_last_db) == IF is_last_db THEN SPACE ELSE PIPE

\* lines 163-166
TableLine(prefix, is_last_table, table) ==
    IF is_last_table THEN prefix \o ELBOW \o TABLE \o table
                     ELSE prefix \o TEE \o TABLE \o table

\* the next iteration of `for i, (db, tables) in enumerate(...)`, or the return
PrintTreeNextDatabase ==
    IF pt_i = Len(databases_tables)
    THEN /\ pc' = "print_tree_return"
         /\ UNCHANGED pt_i
    ELSE /\ pc' = "print_tree_db"
         /\ pt_i' = pt_i + 1

\* line 144, then line 147 and the first iteration of the loop of line 148
PrintTreeCluster ==
    /\ pc = "print_tree"
    /\ calls' = calls + 1
    /\ \/ /\ stdout' = Emit(stdout, "print_tree", ClusterLine(cluster_url))
          /\ pt_i' = 1
          /\ pc' = IF Len(databases_tables) = 0 THEN "print_tree_return"
                                                ELSE "print_tree_db"
          /\ UNCHANGED <<exc, exit_code, interrupts>>
       \/ /\ \E e \in Raised : Deliver(e) /\ Raise(e, 0)
          /\ UNCHANGED <<stdout, pt_i>>
    /\ UNCHANGED <<cluster_url, client, databases, db_idx, databases_tables, inflight,
                   requests, connects, exit_status, pt_j, db_prefix, first_out,
                   first_arg, responses>>

\* lines 149-160
PrintTreeDatabase ==
    /\ pc = "print_tree_db"
    /\ LET db == databases_tables[pt_i].key
           tables == databases_tables[pt_i].value
           is_last_db == pt_i = Len(databases_tables)
       IN \/ /\ stdout' = Emit(stdout, "print_tree", DatabaseLine(is_last_db, db))
             /\ db_prefix' = DbPrefix(is_last_db)
             /\ pt_j' = 1
             /\ IF Len(tables) > 0
                THEN pc' = "print_tree_table" /\ UNCHANGED pt_i
                ELSE PrintTreeNextDatabase
             /\ UNCHANGED <<exc, exit_code, interrupts>>
          \/ /\ \E e \in Raised : Deliver(e) /\ Raise(e, 0)
             /\ UNCHANGED <<stdout, db_prefix, pt_i, pt_j>>
    /\ UNCHANGED <<cluster_url, client, databases, db_idx, databases_tables, inflight,
                   requests, connects, exit_status, calls, first_out, first_arg, responses>>

\* faulty variant: the loop consumes the list it prints (tables.pop(0) until empty)
PrintTreeTableConsumes ==
    /\ pc = "print_tree_table"
    /\ LET tables == databases_tables[pt_i].value
           is_last_table == Len(tables) = 1
       IN \/ /\ stdout' = Emit(stdout, "print_tree",
                               TableLine(db_prefix, is_last_table, Head(tables)))
             /\ databases_tables' = [databases_tables EXCEPT ![pt_i].value = Tail(tables)]
             /\ IF is_last_table
                THEN PrintTreeNextDatabase /\ UNCHANGED pt_j
                ELSE pt_j' = pt_j + 1 /\ UNCHANGED <<pc, pt_i>>
             /\ UNCHANGED <<exc, exit_code, interrupts>>
          \/ /\ \E e \in Raised : Deliver(e) /\ Raise(e, 0)
             /\ UNCHANGED <<stdout, pt_i, pt_j, databases_tables>>
    /\ UNCHANGED <<cluster_url, client, databases, db_idx, inflight,
                   requests, connects, exit_status, db_prefix, calls, first_out,
                   first_arg, responses>>

\* lines 161-166
PrintTreeTable ==
    /\ pc = "print_tree_table"
    /\ LET tables == databases_tables[pt_i].value
           is_last_table == pt_j = Len(tables)
       IN \/ /\ stdout' = Emit(stdout, "print_tree",
                               TableLine(db_prefix, is_last_table, tables[pt_j]))
             /\ IF is_last_table
                THEN PrintTreeNextDatabase /\ UNCHANGED pt_j
                ELSE pt_j' = pt_j + 1 /\ UNCHANGED <<pc, pt_i>>
             /\ UNCHANGED <<exc, exit_code, interrupts>>
          \/ /\ \E e \in Raised : Deliver(e) /\ Raise(e, 0)
             /\ UNCHANGED <<stdout, pt_i, pt_j>>
    /\ UNCHANGED <<cluster_url, client, databases, db_idx, databases_tables, inflight,
                   requests, connects, exit_status, db_prefix, calls, first_out,
                   first_arg, responses>>

(***************************************************************************)
(* main, line 192 and the normal return: exit status 0                     *)
(***************************************************************************)
MainCompleted ==
    /\ pc = "print_tree_return"
    /\ pc' = "done"
    /\ exit_status' = 0
    /\ UNCHANGED <<cluster_url, client, databases, db_idx, databases_tables, inflight,
                   requests, connects, stdout, exc, exit_code, pt_i, pt_j, db_prefix,
                   calls, first_out, first_arg, responses, interrupts>>

(***************************************************************************)
(* main's handlers, lines 194-201.  A SystemExit matches neither clause    *)
(* and ends the process with its code; sys.exit(1) in the second clause    *)
(* ends it with 1; after the first clause main returns and the interpreter *)
(* exits with 0.                                                           *)
(***************************************************************************)
\* faulty variant: the generic handler reports the error but does not call sys.exit(1)
MainExceptClausesNoExit(e) ==
    CASE e = "KeyboardInterrupt" ->
           /\ stdout' = Emit(Emit(stdout, "main", <<>>), "main",
                             <<"Execution interrupted by user">>)
           /\ exit_status' = 0
      [] IsException(e) ->
           /\ stdout' = Emit(stdout, "main", <<"Unexpected error: ">>)
           /\ exit_status' = 0
      [] OTHER ->
           /\ exit_status' = exit_code
           /\ UNCHANGED stdout

MainExceptClauses(e) ==
    CASE e = "KeyboardInterrupt" ->
           /\ stdout' = Emit(Emit(stdout, "main", <<>>), "main",
                             <<"Execution interrupted by user">>)
           /\ exit_status' = 0
      [] IsException(e) ->
           /\ stdout' = Emit(stdout, "main", <<"Unexpected error: ">>)
           /\ exit_status' = 1
      [] OTHER ->
           /\ exit_status' = exit_code
           /\ UNCHANGED stdout

MainExcept ==
    /\ pc = "except"
    /\ MainExceptClauses(exc)
    /\ pc' = "done"
    /\ UNCHANGED <<cluster_url, client, databases, db_idx, databases_tables, inflight,
                   requests, connects, exc, exit_code, pt_i, pt_j, db_prefix, calls,
                   first_out, first_arg, responses, interrupts>>

(***************************************************************************)
(* The program: one run of main                                            *)
(***************************************************************************)
Init ==
    /\ pc = "parse_args"
    /\ cluster_url = <<>>
    /\ client = "none"
    /\ databases = <<>>
    /\ db_idx = 1
    /\ databases_tables = <<>>
    /\ inflight = <<>>
    /\ requests = <<>>
    /\ connects = 0
    /\ stdout = <<>>
    /\ exc = "none"
    /\ exit_code = 0
    /\ exit_status = -1
    /\ pt_i = 1
    /\ pt_j = 1
    /\ db_prefix = <<>>
    /\ calls = 0
    /\ first_out = <<>>
    /\ first_arg = <<>>
    /\ responses = <<>>
    /\ interrupts = 0

Next ==
    \/ ParseArgs
    \/ ConnectToKusto
    \/ GetDatabasesCall
    \/ GetDatabasesReturn
    \/ MainCheckDatabases
    \/ GetTablesCall
    \/ GetTablesReturn
    \/ PrintTreeCluster
    \/ PrintTreeDatabase
    \/ PrintTreeTable
    \/ MainCompleted
    \/ MainExcept

Spec == Init /\ [][Next]_vars

(***************************************************************************)
(* print_tree on its own: every dict up to the bounds, rendered twice with *)
(* the same arguments.                                                     *)
(***************************************************************************)
DictKeyNames == DbNames \cup { <<"C">> }

Dicts ==
    { d \in SeqsUpTo([key : DictKeyNames, value : SeqsUpTo(TableNames, MaxTables)], MaxDbs) :
        \A m, n \in 1..Len(d) : d[m].key = d[n].key => m = n }

InitRender ==
    /\ pc = "print_tree"
    /\ cluster_url \in Urls
    /\ client = "client"
    /\ databases = <<>>
    /\ db_idx = 1
    /\ databases_tables \in Dicts
    /\ inflight = <<>>
    /\ requests = <<>>
    /\ connects = 0
    /\ stdout = <<>>
    /\ exc = "none"
    /\ exit_code = 0
    /\ exit_status = -1
    /\ pt_i = 1
    /\ pt_j = 1
    /\ db_prefix = <<>>
    /\ calls = 0
    /\ first_out = <<>>
    /\ first_arg = databases_tables
    /\ responses = <<>>
    /\ interrupts = 0

\* the first call has returned: keep what it wrote and call again, same arguments
RenderAgain ==
    /\ pc = "print_tree_return"
    /\ calls = 1
    /\ first_out' = stdout
    /\ stdout' = <<>>
    /\ pc' = "print_tree"
    /\ UNCHANGED <<cluster_url, client, databases, db_idx, databases_tables, inflight,
                   requests, connects, exc, exit_code, exit_status, pt_i, pt_j,
                   db_prefix, calls, first_arg, responses, interrupts>>

NextRender ==
    \/ PrintTreeCluster
    \/ PrintTreeDatabase
    \/ PrintTreeTable
    \/ RenderAgain

SpecRender == InitRender /\ [][NextRender]_vars

(***************************************************************************)
(* Observations used by the properties                                     *)
(***************************************************************************)
\* the lines a function wrote, in order
LinesOf(fn) ==
    LET own == SelectSeq(stdout, LAMBDA l : l.fn = fn)
    IN [n \in 1..Len(own) |-> own[n].text]

TreeLines == LinesOf("print_tree")

TableRequests == SelectSeq(requests, LAMBDA r : r.command = ".show tables")

Wrote(fn, text) == \E n \in 1..Len(stdout) : stdout[n] = [fn |-> fn, text |-> text]

Exited == pc = "done"

\* connect_to_kusto's handler ran: credential acquisition or client construction failed
ConnectFailed == \E n \in 1..Len(stdout) : stdout[n].fn = "connect_to_kusto"

NothingFoundLine == <<"No databases found or unable to fetch databases.">>

(***************************************************************************)
(* C1: when credential acquisition or client construction fails, no        *)
(* execute_mgmt request is ever issued, no tree line is written, no client *)
(* handle exists, the SystemExit(1) raised by the connector reaches the    *)
(* top of main unhandled, and the process ends with exit status 1.         *)
(***************************************************************************)
C1_ConnectFailureIsFatal ==
    ConnectFailed =>
        /\ requests = <<>>
        /\ TreeLines = <<>>
        /\ client = "none"
        /\ pc \in {"except", "done"}
        /\ exc = "SystemExit" /\ exit_code = 1
        /\ LinesOf("main") = <<>>
        /\ Exited => exit_status = 1

C1_Witness == ConnectFailed /\ Exited /\ exit_status = 1 /\ cluster_url # <<>>

(***************************************************************************)
(* C2: when get_databases has returned an empty list (zero rows, or an     *)
(* absorbed Exception), main writes the "nothing found" message as its     *)
(* only line, no .show tables request is issued, print_tree is never       *)
(* entered, and the process ends with exit status 0.                       *)
(***************************************************************************)
GetDatabasesReturnedEmpty ==
    /\ Len(responses) >= 1
    /\ responses[1].raised \in {"none", "Exception"}
    /\ responses[1].rows = <<>>

C2_EmptyListingEndsRun ==
    GetDatabasesReturnedEmpty =>
        /\ databases = <<>>
        /\ TableRequests = <<>>
        /\ Len(requests) = 1
        /\ calls = 0 /\ TreeLines = <<>>
        /\ pc \in {"check_databases", "done"}
        /\ exc = "none"
        /\ Exited => /\ exit_status = 0
                     /\ LinesOf("main") = <<NothingFoundLine>>

C2_Witness ==
    /\ Exited
    /\ responses = <<Response("Exception", <<>>)>>
    /\ Wrote("main", NothingFoundLine)
    /\ exit_status = 0

(***************************************************************************)
(* Reading the tree back from the lines print_tree wrote: a database line  *)
(* carries the folder glyph, a table line the clipboard glyph, and the     *)
(* name is what follows the marker.                                        *)
(***************************************************************************)
Has(l, glyph) == \E n \in 1..Len(l) : l[n] = glyph

After(l, glyph, skip) ==
    LET p == CHOOSE n \in 1..Len(l) : l[n] = glyph IN SubSeq(l, p + skip + 1, Len(l))

TreeEntry(l) ==
    IF Has(l, "FOLDER") THEN [kind |-> "db", name |-> After(l, "FOLDER", 2)]
    ELSE IF Has(l, "CLIPBOARD") THEN [kind |-> "table", name |-> After(l, "CLIPBOARD", 1)]
    ELSE [kind |-> "other", name |-> l]

\* the tree below the root line, as written
Rendered ==
    LET t == TreeLines IN [n \in 1..(Len(t) - 1) |-> TreeEntry(t[n + 1])]

RECURSIVE Flatten(_)
Flatten(d) ==
    IF d = <<>> THEN <<>>
    ELSE <<[kind |-> "db", name |-> d[1].key]>>
         \o [n \in 1..Len(d[1].value) |-> [kind |-> "table", name |-> d[1].value[n]]]
         \o Flatten(Tail(d))

IsPrefix(s, t) == Len(s) <= Len(t) /\ s = SubSeq(t, 1, Len(s))

Range(s) == { s[n] : n \in 1..Len(s) }

RECURSIVE FirstOccurrences(_)
FirstOccurrences(s) ==
    IF s = <<>> THEN <<>>
    ELSE LET r == FirstOccurrences(SubSeq(s, 1, Len(s) - 1))
         IN IF s[Len(s)] \in Range(r) THEN r ELSE Append(r, s[Len(s)])

\* the run ended by falling off the end of main's try block after print_tree
RanToCompletion == Exited /\ exc = "none" /\ databases # <<>>

\* responses[1] answers .show databases; responses[k + 1] answers databases[k]
TablesFailed(k) == k + 1 <= Len(responses) /\ responses[k + 1].raised = "Exception"

LastPosition(name, upto) ==
    CHOOSE k \in 1..upto :
        /\ databases[k] = name
        /\ \A m \in (k + 1)..upto : databases[m] # name

\* r is a tree as read back by Rendered
InTree(r, name) == \E n \in 1..Len(r) : r[n] = [kind |-> "db", name |-> name]

NoTableLinesUnder(r, name) ==
    \A n \in 1..Len(r) :
        r[n] = [kind |-> "db", name |-> name] => (n = Len(r) \/ r[n + 1].kind = "db")

\* the part of C3 that does not depend on which failing request is meant
ListingFailureIsIsolated ==
    /\ exc = "Exception" => calls >= 1
    /\ \A k \in 1..Len(databases) :
           (TablesFailed(k) /\ k < Len(databases)) =>
               (Len(requests) > k + 1 \/ (pc = "get_tables" /\ db_idx = k + 1))
    /\ RanToCompletion =>
           /\ exit_status = 0
           /\ [n \in 1..Len(TableRequests) |-> TableRequests[n].database] = databases
           /\ LET r == Rendered IN \A k \in 1..Len(databases) : InTree(r, databases[k])

C4_Original ==
    (pc \in {"print_tree", "print_tree_db", "print_tree_table", "print_tree_return"}) =>
        /\ DictKeys(databases_tables) = databases
        /\ \A k \in 1..Len(databases_tables) :
               databases_tables[k].value = responses[k + 1].rows
        /\ IsPrefix(Rendered, Flatten(databases_tables))

(***************************************************************************)
(* C4 amended: at every point of the run the keys of the dict are the      *)
(* database names handled so far in order of first occurrence, each value  *)
(* is the table list of the last answer for that name (empty when that     *)
(* request failed), in the order returned; nothing of the tree is written  *)
(* before print_tree is entered, while it runs the lines written so far    *)
(* are a prefix of the dict read in key order and list order, and they are *)
(* all of it once print_tree has returned.                                 *)
(***************************************************************************)
C4_OrderPreserved ==
    LET handled == db_idx - 1
        r == Rendered
        flat == Flatten(databases_tables)
    IN /\ DictKeys(databases_tables) = FirstOccurrences(SubSeq(databases, 1, handled))
       /\ \A k \in 1..Len(databases_tables) :
              databases_tables[k].value =
                  responses[LastPosition(databases_tables[k].key, handled) + 1].rows
       /\ calls = 0 => TreeLines = <<>>
       /\ pc \in {"print_tree_db", "print_tree_table"} => IsPrefix(r, flat)
       /\ (pc = "print_tree_return" \/ RanToCompletion) => r = flat

C4_Witness ==
    /\ RanToCompletion
    /\ databases = << <<"B">>, <<"A">> >>
    /\ responses[2].rows = << <<"t", "2">>, <<"t", "1">> >>
    /\ responses[3].rows = << <<"t", "1">> >>
    /\ Rendered = << [kind |-> "db", name |-> <<"B">>],
                     [kind |-> "table", name |-> <<"t", "2">>],
                     [kind |-> "table", name |-> <<"t", "1">>],
                     [kind |-> "db", name |-> <<"A">>],
                     [kind |-> "table", name |-> <<"t", "1">>] >>

(***************************************************************************)
(* Properties of print_tree, checked under SpecRender                      *)
(***************************************************************************)
Texts(out) == [n \in 1..Len(out) |-> out[n].text]

Returned == pc = "print_tree_return"

ExampleDict ==
    << [key |-> <<"A">>, value |-> << <<"t", "1">> >>],
       [key |-> <<"B">>, value |-> <<>>] >>

(***************************************************************************)
(* C5 as stated: for {"A": ["t1"], "B": []} the third of the four lines is *)
(* the pipe marker, two spaces, the corner marker, the table marker and    *)
(* "t1" (the pipe marker read as TreeStyle.PIPE, or as the bar alone).     *)
(***************************************************************************)
C5_Original ==
    (first_arg = ExampleDict /\ Returned) =>
        \/ Texts(stdout) =
              << CLUSTER \o cluster_url,
                 TEE \o DATABASE \o <<"A">>,
                 PIPE \o <<" ", " ">> \o ELBOW \o TABLE \o <<"t", "1">>,
                 ELBOW \o DATABASE \o <<"B">> >>
        \/ Texts(stdout) =
              << CLUSTER \o cluster_url,
                 TEE \o DATABASE \o <<"A">>,
                 <<ForeWHITE, "BOX_V">> \o <<" ", " ">> \o ELBOW \o TABLE \o <<"t", "1">>,
                 ELBOW \o DATABASE \o <<"B">> >>

(***************************************************************************)
(* C5 amended: for {"A": ["t1"], "B": []} print_tree writes exactly four   *)
(* lines: root marker and cluster address; branch marker, database marker, *)
(* "A"; pipe marker (a bar and one space) directly followed by the corner  *)
(* marker, the table marker and "t1"; corner marker, database marker, "B". *)
(***************************************************************************)
C5_Example ==
    (first_arg = ExampleDict /\ Returned) =>
        Texts(stdout) =
            << <<"ESC[36m", "GLOBE", " ", "ESC[1m">> \o cluster_url,
               <<"ESC[37m", "BOX_VR", "BOX_H", "ESC[32m", "FOLDER", " ", "ESC[1m", "A">>,
               <<"ESC[37m", "BOX_V", " ", "ESC[37m", "BOX_UR", "BOX_H",
                 "ESC[33m", "CLIPBOARD", " ", "t", "1">>,
               <<"ESC[37m", "BOX_UR", "BOX_H", "ESC[32m", "FOLDER", " ", "ESC[1m", "B">> >>

C5_Witness == first_arg = ExampleDict /\ Returned /\ calls = 1 /\ Len(stdout) = 4

(***************************************************************************)
(* C7: print_tree never changes the dict it is given, and a second call    *)
(* with the same arguments writes, line for line, what the first call      *)
(* wrote.                                                                  *)
(***************************************************************************)
C7_RenderingIdempotent ==
    /\ databases_tables = first_arg
    /\ calls = 2 => IsPrefix(stdout, first_out)
    /\ (calls = 2 /\ Returned) => stdout = first_out

C7_Witness ==
    /\ calls = 2 /\ Returned
    /\ Len(first_arg) = 2
    /\ Len(first_arg[1].value) = 2
    /\ Len(stdout) = 5 /\ stdout = first_out

(***************************************************************************)
(* C8: when print_tree returns it has written 1 + #databases + #tables     *)
(* lines: the root line; per database, in dict order, a line led by the    *)
(* corner marker if it is the last key and by the branch marker otherwise; *)
(* under it one line per table, in list order, prefixed by the blank       *)
(* indent if the database is last and by the bar otherwise, with the       *)
(* corner marker if the table is the last of its list and the branch       *)
(* marker otherwise.  A database without tables has no line under it.      *)
(***************************************************************************)
RECURSIVE TablesBefore(_, _)
TablesBefore(d, k) == IF k <= 1 THEN 0 ELSE Len(d[k - 1].value) + TablesBefore(d, k - 1)

C8_TreeShape ==
    Returned =>
        LET d == databases_tables
            L == Texts(stdout)
            last == Len(d)
        IN /\ Len(L) = 1 + last + TablesBefore(d, last + 1)
           /\ L[1] = CLUSTER \o cluster_url
           /\ \A k \in 1..last :
                  LET p == 1 + k + TablesBefore(d, k)
                      tables == d[k].value
                  IN /\ L[p] = (IF k = last THEN ELBOW ELSE TEE) \o DATABASE \o d[k].key
                     /\ \A j \in 1..Len(tables) :
                            L[p + j] = (IF k = last THEN SPACE ELSE PIPE)
                                       \o (IF j = Len(tables) THEN ELBOW ELSE TEE)
                                       \o TABLE \o tables[j]

C8_Witness ==
    /\ Returned
    /\ Len(databases_tables) = 2
    /\ databases_tables[1].value = <<>>
    /\ Len(databases_tables[2].value) = 2
    /\ Len(stdout) = 5

(***************************************************************************)
(* C6: the process ends with status 0 when nothing propagated to the top   *)
(* of main (the tree was written, or no database was found), and with a    *)
(* non-zero status when the connection failed or an Exception reached      *)
(* main's generic handler (a print() of print_tree raising, for one).      *)
(***************************************************************************)
C6_ExitStatus ==
    Exited =>
        /\ exit_status \in {0, 1, 2}
        /\ exc = "none" => exit_status = 0
        /\ (exc = "none" /\ databases # <<>>) => Rendered = Flatten(databases_tables)
        /\ (exc = "none" /\ databases = <<>>) => Wrote("main", NothingFoundLine)
        /\ ConnectFailed => exit_status # 0
        /\ exc = "Exception" => exit_status # 0

C6_Witness ==
    /\ Exited /\ exc = "Exception" /\ exit_status = 1
    /\ Len(TreeLines) = 2
    /\ Wrote("main", <<"Unexpected error: ">>)

(***************************************************************************)
(* C9: the connection is attempted at most once and before any request;    *)
(* the requests issued are .show databases once, then .show tables for     *)
(* databases[1], databases[2], ... in that order, one per position, each   *)
(* issued only when every earlier request has been answered (returned or   *)
(* raised), none issued twice; print_tree starts only when the request of  *)
(* the last database has been answered.                                    *)
(***************************************************************************)
ExpectedRequests(n) ==
    <<Request(<<>>, ".show databases")>>
        \o [k \in 1..n |-> Request(databases[k], ".show tables")]

C9_SequentialNoRetry ==
    /\ connects <= 1
    /\ requests # <<>> => (connects = 1 /\ client = "client")
    /\ Len(inflight) <= 1
    /\ Len(responses) + Len(inflight) = Len(requests)
    /\ inflight # <<>> => inflight[1] = requests[Len(requests)]
    /\ Len(requests) > 1 => (responses[1].raised = "none" /\ responses[1].rows = databases)
    /\ Len(requests) - 1 <= Len(databases)
    /\ requests # <<>> => requests = ExpectedRequests(Len(requests) - 1)
    /\ (calls > 0 \/ TreeLines # <<>>) =>
           (Len(requests) = 1 + Len(databases) /\ inflight = <<>>)
    /\ RanToCompletion => requests = ExpectedRequests(Len(databases))

C9_Witness ==
    /\ RanToCompletion
    /\ Len(databases) = 2
    /\ TablesFailed(1)
    /\ Len(requests) = 3
    /\ Len(TreeLines) >= 3

(***************************************************************************)
(* C10: a KeyboardInterrupt delivered while connecting, listing databases, *)
(* listing tables or printing the tree always propagates to main; no       *)
(* request is issued after it; main's first handler writes the interrupted *)
(* message once, the generic handler does not run, and the process ends    *)
(* without an explicit exit (status 0).                                    *)
(***************************************************************************)
InterruptedLines == << <<>>, <<"Execution interrupted by user">> >>

C10_InterruptCaughtOnce ==
    /\ interrupts <= 1
    /\ interrupts = 1 <=> exc = "KeyboardInterrupt"
    /\ exc # "KeyboardInterrupt" => ~Wrote("main", <<"Execution interrupted by user">>)
    /\ exc = "KeyboardInterrupt" =>
           /\ pc \in {"except", "done"}
           /\ inflight = <<>>
           /\ \A k \in 1..Len(responses) :
                  responses[k].raised = "KeyboardInterrupt" => k = Len(requests)
           /\ client = "none" => requests = <<>>
           /\ pc = "except" => LinesOf("main") = <<>>
           /\ Exited => (exit_status = 0 /\ LinesOf("main") = InterruptedLines)

C10_Witness ==
    /\ Exited /\ exc = "KeyboardInterrupt" /\ exit_status = 0
    /\ Len(databases) = 2
    /\ Len(requests) = 2
    /\ responses[2].raised = "KeyboardInterrupt"
    /\ LinesOf("main") = InterruptedLines

====
